---- MODULE Spec2Model ----
(***************************************************************************)
(* EPC069-12 "BCD" QR payment payloads: the payload builder                *)
(* (app.py, EuQrPayment), the Belgian OGM generator (app.py,               *)
(* generate_belgian_ogm) and the payload validator (validation.py,         *)
(* validate_qr_string).                                                    *)
(*                                                                         *)
(* A Python str is modelled as a sequence of one-character strings, so     *)
(* that upper-casing, filtering, stripping, slicing, splitting and joining *)
(* are computed character by character as the library does.                *)
(***************************************************************************)
EXTENDS Integers, Sequences, FiniteSets, TLC

VARIABLES payment, qr_out, iban_out, ogm_in, ogm_out, qr_string, val_out

vars == <<payment, qr_out, iban_out, ogm_in, ogm_out, qr_string, val_out>>

(***************************************************************************)
(* Bounds of the model.                                                    *)
(***************************************************************************)
\* longest creditor reference typed by the caller
MaxRefLen == 2
\* longest base handed to the OGM generator beyond the 10 digits it keeps
MaxBaseExtra == 1
\* most lines a pasted payload carries beyond the 12 of the format
MaxExtraLines == 2

(***************************************************************************)
(* Characters and the str methods the program uses.                        *)
(***************************************************************************)
UpperSeq == <<"A","B","C","D","E","F","G","H","I","J","K","L","M",
              "N","O","P","Q","R","S","T","U","V","W","X","Y","Z">>
LowerSeq == <<"a","b","c","d","e","f","g","h","i","j","k","l","m",
              "n","o","p","q","r","s","t","u","v","w","x","y","z">>
DigitSeq == <<"0","1","2","3","4","5","6","7","8","9">>

UpperLetters == {UpperSeq[i] : i \in 1..26}
LowerLetters == {LowerSeq[i] : i \in 1..26}
DigitChars == {DigitSeq[i] : i \in 1..10}
Whitespace == {" ", "\t", "\n", "\r"}

\* str.upper(), one character
UpperChar(c) ==
  IF c \in LowerLetters
    THEN UpperSeq[CHOOSE i \in 1..26 : LowerSeq[i] = c]
    ELSE c

\* ord(c) for c in A-Z
Ord(c) == 64 + (CHOOSE i \in 1..26 : UpperSeq[i] = c)

\* int(c) for a digit character
DigitVal(c) == (CHOOSE i \in 1..10 : DigitSeq[i] = c) - 1

\* s[:n]
Take(s, n) == IF Len(s) <= n THEN s ELSE SubSeq(s, 1, n)

\* s[n:]
Drop(s, n) == IF Len(s) <= n THEN <<>> ELSE SubSeq(s, n + 1, Len(s))

\* s.startswith(p)
StartsWith(s, p) == Len(s) >= Len(p) /\ SubSeq(s, 1, Len(p)) = p

\* s.endswith(p)
EndsWith(s, p) == Len(s) >= Len(p) /\ SubSeq(s, Len(s) - Len(p) + 1, Len(s)) = p

\* s.strip(): from the first to the last character that is not whitespace
Strip(s) ==
  LET kept == {i \in 1..Len(s) : s[i] \notin Whitespace}
  IN  IF kept = {} THEN <<>>
      ELSE SubSeq(s, CHOOSE i \in kept : \A j \in kept : i <= j,
                     CHOOSE i \in kept : \A j \in kept : j <= i)

\* c * n
Rep(c, n) == [i \in 1..n |-> c]

\* s.split("\n"): the separator removed, empty lines kept
Split(s) ==
  LET seps == {i \in 1..Len(s) : s[i] = "\n"}
      n == Cardinality(seps)
      \* position of the k-th separator; 0 before the first, Len(s)+1 after the last
      at(k) == IF k = 0 THEN 0
               ELSE IF k = n + 1 THEN Len(s) + 1
               ELSE CHOOSE i \in seps : Cardinality({j \in seps : j < i}) = k - 1
  IN  [k \in 1..(n + 1) |-> SubSeq(s, at(k - 1) + 1, at(k) - 1)]

\* "\n".join(lines)
RECURSIVE Join(_)
Join(lines) ==
  IF lines = <<>> THEN <<>>
  ELSE IF Len(lines) = 1 THEN lines[1]
  ELSE lines[1] \o <<"\n">> \o Join(Tail(lines))

\* str(n) for n >= 0
RECURSIVE DecStr(_)
DecStr(n) ==
  IF n < 10 THEN <<DigitSeq[n + 1]>>
  ELSE Append(DecStr(n \div 10), DigitSeq[(n % 10) + 1])

\* s.zfill(w)
ZFill(s, w) == IF Len(s) >= w THEN s ELSE Rep("0", w - Len(s)) \o s

(***************************************************************************)
(* app.py: EuQrPayment                                                     *)
(***************************************************************************)
NAME_MAX == 70
REMITTANCE_MAX == 140
INFO_MAX == 70

\* re.sub(r'[^A-Z0-9]', '', text.upper())
_sanitize_alphanum(text) ==
  IF text = <<>> THEN <<>>
  ELSE SelectSeq([i \in 1..Len(text) |-> UpperChar(text[i])],
                 LAMBDA c : c \in UpperLetters \cup DigitChars)

\* text.strip()[:max_len]
_sanitize_text(text, max_len) ==
  IF text = <<>> THEN <<>>
  ELSE Take(Strip(text), max_len)

BCD == <<"B","C","D">>
SCT == <<"S","C","T">>
V002 == <<"0","0","2">>
RF == <<"R","F">>
EUR == <<"E","U","R">>

\* __init__(iban)
EuQrPayment(iban_raw) ==
  [iban |-> _sanitize_alphanum(iban_raw),
   bic |-> <<>>,
   beneficiary_name |-> <<>>,
   amount |-> 0,
   currency |-> EUR,
   purpose |-> <<>>,
   remittance_text |-> <<>>,
   creditor_reference |-> <<>>,
   information |-> <<>>,
   version |-> V002,
   char_set |-> <<"1">>]

\* f"{amount:.2f}", the amount held in hundredths
FormatAmount(cents) ==
  DecStr(cents \div 100) \o <<".">> \o ZFill(DecStr(cents % 100), 2)

ERR_NAME == "Beneficiary Name is required."
ERR_BOTH == "Cannot set both Remittance Text and Creditor Reference."
ERR_RF == "Structured Reference (AT-44) must be an ISO 11649 Reference starting with 'RF'."

Raised(msg) == [status |-> "raised", error |-> msg, payload |-> <<>>]
Returned(s) == [status |-> "returned", error |-> "", payload |-> s]
NotCalled == [status |-> "none", error |-> "", payload |-> <<>>]

\* get_qr_string with the constraints checked on the stored fields, not the cleaned ones
get_qr_string_unsanitized_checks(p) ==
  LET final_name == _sanitize_text(p.beneficiary_name, NAME_MAX)
      final_creditor_ref == _sanitize_alphanum(p.creditor_reference)
      final_remittance == _sanitize_text(p.remittance_text, REMITTANCE_MAX)
      amount_str == IF p.amount > 0 THEN p.currency \o FormatAmount(p.amount) ELSE <<>>
      lines == <<BCD, p.version, p.char_set, SCT, _sanitize_alphanum(p.bic), final_name,
                 _sanitize_alphanum(p.iban), amount_str, p.purpose, final_creditor_ref,
                 final_remittance, _sanitize_text(p.information, INFO_MAX)>>
  IN  IF p.beneficiary_name = <<>> THEN Raised(ERR_NAME)
      ELSE IF p.remittance_text # <<>> /\ p.creditor_reference # <<>> THEN Raised(ERR_BOTH)
      ELSE IF final_creditor_ref # <<>> /\ ~StartsWith(final_creditor_ref, RF)
        THEN Raised(ERR_RF)
      ELSE Returned(Join(lines))

\* get_qr_string with the reference rules checked before the name rule
get_qr_string_reference_first(p) ==
  LET final_name == _sanitize_text(p.beneficiary_name, NAME_MAX)
      final_creditor_ref == _sanitize_alphanum(p.creditor_reference)
      final_remittance == _sanitize_text(p.remittance_text, REMITTANCE_MAX)
      amount_str == IF p.amount > 0 THEN p.currency \o FormatAmount(p.amount) ELSE <<>>
      lines == <<BCD, p.version, p.char_set, SCT, _sanitize_alphanum(p.bic), final_name,
                 _sanitize_alphanum(p.iban), amount_str, p.purpose, final_creditor_ref,
                 final_remittance, _sanitize_text(p.information, INFO_MAX)>>
  IN  IF final_remittance # <<>> /\ final_creditor_ref # <<>> THEN Raised(ERR_BOTH)
      ELSE IF final_creditor_ref # <<>> /\ ~StartsWith(final_creditor_ref, RF)
        THEN Raised(ERR_RF)
      ELSE IF final_name = <<>> THEN Raised(ERR_NAME)
      ELSE Returned(Join(lines))

\* get_qr_string without the rule that a creditor reference starts with RF
get_qr_string_no_rf_rule(p) ==
  LET final_name == _sanitize_text(p.beneficiary_name, NAME_MAX)
      final_creditor_ref == _sanitize_alphanum(p.creditor_reference)
      final_remittance == _sanitize_text(p.remittance_text, REMITTANCE_MAX)
      amount_str == IF p.amount > 0 THEN p.currency \o FormatAmount(p.amount) ELSE <<>>
      lines == <<BCD, p.version, p.char_set, SCT, _sanitize_alphanum(p.bic), final_name,
                 _sanitize_alphanum(p.iban), amount_str, p.purpose, final_creditor_ref,
                 final_remittance, _sanitize_text(p.information, INFO_MAX)>>
  IN  IF final_name = <<>> THEN Raised(ERR_NAME)
      ELSE IF final_remittance # <<>> /\ final_creditor_ref # <<>> THEN Raised(ERR_BOTH)
      ELSE Returned(Join(lines))

\* get_qr_string(): the ValueError it raises or the string it returns
get_qr_string(p) ==
  LET final_iban == _sanitize_alphanum(p.iban)
      final_bic == _sanitize_alphanum(p.bic)
      final_name == _sanitize_text(p.beneficiary_name, NAME_MAX)
      final_creditor_ref == _sanitize_alphanum(p.creditor_reference)
      final_remittance == _sanitize_text(p.remittance_text, REMITTANCE_MAX)
      final_info == _sanitize_text(p.information, INFO_MAX)
      amount_str == IF p.amount > 0 THEN p.currency \o FormatAmount(p.amount) ELSE <<>>
      lines == <<BCD, p.version, p.char_set, SCT, final_bic, final_name, final_iban,
                 amount_str, p.purpose, final_creditor_ref, final_remittance, final_info>>
  IN  IF final_name = <<>> THEN Raised(ERR_NAME)
      ELSE IF final_remittance # <<>> /\ final_creditor_ref # <<>> THEN Raised(ERR_BOTH)
      ELSE IF final_creditor_ref # <<>> /\ ~StartsWith(final_creditor_ref, RF)
        THEN Raised(ERR_RF)
      ELSE Returned(Join(lines))

\* int(numeral) % m for a string of decimal digits. Python's int is unbounded;
\* the value is the sum of digit * 10^position, reduced modulo m term by term.
RECURSIVE Pow10Mod(_, _)
Pow10Mod(k, m) == IF k = 0 THEN 1 % m ELSE (10 * Pow10Mod(k - 1, m)) % m

RECURSIVE WeightedSum(_, _, _)
WeightedSum(numeral, i, m) ==
  IF i > Len(numeral) THEN 0
  ELSE (DigitVal(numeral[i]) * Pow10Mod(Len(numeral) - i, m)
        + WeightedSum(numeral, i + 1, m)) % m

PyIntMod(numeral, m) == WeightedSum(numeral, 1, m)

\* re.match(r'^[A-Z]{2}\d{2}[A-Z0-9]{1,30}$', iban)
MatchesIbanPattern(iban) ==
  /\ Len(iban) >= 5
  /\ Len(iban) <= 34
  /\ \A i \in 1..2 : iban[i] \in UpperLetters
  /\ \A i \in 3..4 : iban[i] \in DigitChars
  /\ \A i \in 5..Len(iban) : iban[i] \in UpperLetters \cup DigitChars

\* the digits one character of the rearranged IBAN contributes (ord(char) - 55)
NumericOfWrongOffset(char) ==
  IF char \in DigitChars THEN <<char>> ELSE DecStr(Ord(char) - 64)

NumericOf(char) ==
  IF char \in DigitChars THEN <<char>> ELSE DecStr(Ord(char) - 55)

RECURSIVE NumericIban(_)
NumericIban(rearranged) ==
  IF rearranged = <<>> THEN <<>>
  ELSE NumericOf(Head(rearranged)) \o NumericIban(Tail(rearranged))

\* validate_iban()
validate_iban(p) ==
  IF p.iban = <<>> THEN FALSE
  ELSE IF ~MatchesIbanPattern(p.iban) THEN FALSE
  ELSE LET rearranged == Drop(p.iban, 4) \o Take(p.iban, 4)
       IN  PyIntMod(NumericIban(rearranged), 97) = 1

NoVerdict == [called |-> FALSE, result |-> FALSE]

(***************************************************************************)
(* app.py: generate_belgian_ogm                                            *)
(***************************************************************************)
\* the arguments of random.randint, as decimal numerals (both exceed 2^31)
RAND_LO_zero == <<"0">>

RAND_LO == <<"1","0","0","0","0","0","0","0","0","0">>

RAND_HI == <<"9","9","9","9","9","9","9","9","9","9">>

\* a <= b for decimal numerals without leading zeros
RECURSIVE LexLE(_, _)
LexLE(a, b) ==
  IF a = <<>> THEN TRUE
  ELSE IF DigitVal(Head(a)) # DigitVal(Head(b)) THEN DigitVal(Head(a)) < DigitVal(Head(b))
  ELSE LexLE(Tail(a), Tail(b))

DecLE(a, b) == Len(a) < Len(b) \/ (Len(a) = Len(b) /\ LexLE(a, b))

\* the integers a draw is picked from, in place of all of them
IntSamples ==
  { <<"0">>, <<"1">>, <<"9","7">>,
    <<"9","9","9","9","9","9","9","9","9">>,
    <<"1","0","0","0","0","0","0","0","0","0">>,
    <<"1","0","0","0","0","0","0","0","0","1">>,
    <<"1","0","0","0","0","0","0","0","5","1">>,
    <<"5","3","3","7","3","6","7","1","5","2">>,
    <<"9","9","9","9","9","9","9","9","9","8">>,
    <<"9","9","9","9","9","9","9","9","9","9">>,
    <<"1","0","0","0","0","0","0","0","0","0","0">> }

\* str(random.randint(lo, hi)): any integer from lo to hi, both included
RandInt(lo, hi) == {n \in IntSamples : DecLE(lo, n) /\ DecLE(n, hi)}

\* the check value without the replacement of 0 by 97
CheckValueKeepZero(digits) == PyIntMod(digits, 97)

\* base_int % 97, 0 replaced by 97
CheckValue(digits) ==
  LET mod == PyIntMod(digits, 97)
  IN  IF mod = 0 THEN 97 ELSE mod

\* generate_belgian_ogm(base_num) once base_num is a non-empty string
FormatOgm(base_num) ==
  LET stripped == SelectSeq(base_num, LAMBDA c : c \in DigitChars)
      digits == IF Len(stripped) > 10 THEN Take(stripped, 10) ELSE ZFill(stripped, 10)
      check_digits == ZFill(DecStr(CheckValue(digits)), 2)
      full_digits == digits \o check_digits
      part1 == SubSeq(full_digits, 1, 3)
      part2 == SubSeq(full_digits, 4, 7)
      part3 == SubSeq(full_digits, 8, 12)
  IN  <<"+","+","+">> \o part1 \o <<"/">> \o part2 \o <<"/">> \o part3 \o <<"+","+","+">>

\* generate_belgian_ogm(base_num): every string it may return
generate_belgian_ogm(base_num) ==
  IF base_num = <<>>
    THEN {FormatOgm(r) : r \in RandInt(RAND_LO, RAND_HI)}
    ELSE {FormatOgm(base_num)}

NoOgm == [called |-> FALSE, value |-> <<>>]

(***************************************************************************)
(* validation.py: validate_qr_string                                       *)
(***************************************************************************)
EXPECTED_LINES == 12

NONE == <<>>
EMPTY_MARKER == <<"[","E","m","p","t","y","]">>
PLUSES == <<"+","+","+">>

schema ==
  << [name |-> "Service Tag", expected |-> BCD],
     [name |-> "Version", expected |-> V002],
     [name |-> "Character Set", expected |-> <<"1">>],
     [name |-> "Identification", expected |-> SCT],
     [name |-> "BIC", expected |-> NONE],
     [name |-> "Beneficiary Name", expected |-> NONE],
     [name |-> "IBAN", expected |-> NONE],
     [name |-> "Amount", expected |-> NONE],
     [name |-> "Purpose", expected |-> NONE],
     [name |-> "Creditor Reference", expected |-> NONE],
     [name |-> "Remittance Text", expected |-> NONE],
     [name |-> "Beneficiary Info", expected |-> NONE] >>

\* one printed line: what it reports, the number it prints (the 1-based line it is
\* about or the line count; 0: none), and the value or the line sequence it shows
Diag(kind, line, value) == [kind |-> kind, line |-> line, value |-> value]

FailKinds == {"header_fail", "mandatory_fail", "logic_fail", "rf_fail"}

\* the loop that drops trailing lines, without its test that more than 12 remain
DropTrailingEmptyUnguarded(lines) ==
  LET kept == {k \in 1..Len(lines) : lines[k] # <<>>}
  IN  IF kept = {} THEN <<>>
      ELSE SubSeq(lines, 1, CHOOSE k \in kept : \A j \in kept : j <= k)

\* while len(lines) > 12 and lines[-1] == "": lines.pop()
RECURSIVE DropTrailingEmpty(_)
DropTrailingEmpty(lines) ==
  IF Len(lines) > EXPECTED_LINES /\ lines[Len(lines)] = <<>>
    THEN DropTrailingEmpty(SubSeq(lines, 1, Len(lines) - 1))
    ELSE lines

\* the lines after the pre-pass and what the pre-pass printed
PrePassNoAppend(qr) ==
  LET lines == DropTrailingEmpty(Split(qr))
  IN  [lines |-> lines, diags |-> <<Diag("start", 0, <<>>)>>]

PrePass(qr) ==
  LET split == Split(qr)
      short == Len(split) = 11
      appended == IF short THEN Append(split, <<>>) ELSE split
      lines == DropTrailingEmpty(appended)
  IN  [lines |-> lines,
       diags |-> <<Diag("start", 0, <<>>)>>
                 \o (IF short THEN <<Diag("warning", 12, <<>>), Diag("warning_note", 0, <<>>)>>
                              ELSE <<>>)]

\* one iteration of the loop over the schema, i the 0-based index: what it prints
\* and whether it leaves is_valid alone, with the trace line printed in every case
FieldCheckAlwaysTrace(i, lines) ==
  LET expected == schema[i + 1].expected
      name == schema[i + 1].name
      value == Strip(lines[i + 1])
      trace == <<Diag("trace", i + 1, IF value # <<>> THEN value ELSE EMPTY_MARKER)>>
  IN  IF expected # NONE /\ value # expected
        THEN [diags |-> <<Diag("header_fail", i + 1, value)>> \o trace, ok |-> FALSE]
      ELSE IF name \in {"Beneficiary Name", "IBAN"} /\ value = <<>>
        THEN [diags |-> <<Diag("mandatory_fail", i + 1, <<>>)>> \o trace, ok |-> FALSE]
      ELSE
        LET both == i = 9 /\ value # <<>> /\ Strip(lines[11]) # <<>>
            ogm == i = 10 /\ StartsWith(value, PLUSES) /\ EndsWith(value, PLUSES)
            not_rf == i = 9 /\ value # <<>> /\ ~StartsWith(value, RF)
        IN  [diags |-> (IF both THEN <<Diag("logic_fail", 10, <<>>)>> ELSE <<>>)
                       \o (IF ogm THEN <<Diag("ogm_info", i + 1, <<>>)>> ELSE <<>>)
                       \o (IF not_rf THEN <<Diag("rf_fail", i + 1, value)>> ELSE <<>>)
                       \o trace,
             ok |-> ~both /\ ~not_rf]

FieldCheck(i, lines) ==
  LET expected == schema[i + 1].expected
      name == schema[i + 1].name
      value == Strip(lines[i + 1])
  IN  IF expected # NONE /\ value # expected
        THEN [diags |-> <<Diag("header_fail", i + 1, value)>>, ok |-> FALSE]
      ELSE IF name \in {"Beneficiary Name", "IBAN"} /\ value = <<>>
        THEN [diags |-> <<Diag("mandatory_fail", i + 1, <<>>)>>, ok |-> FALSE]
      ELSE
        LET both == i = 9 /\ value # <<>> /\ Strip(lines[11]) # <<>>
            ogm == i = 10 /\ StartsWith(value, PLUSES) /\ EndsWith(value, PLUSES)
            not_rf == i = 9 /\ value # <<>> /\ ~StartsWith(value, RF)
        IN  [diags |-> (IF both THEN <<Diag("logic_fail", 10, <<>>)>> ELSE <<>>)
                       \o (IF ogm THEN <<Diag("ogm_info", i + 1, <<>>)>> ELSE <<>>)
                       \o (IF not_rf THEN <<Diag("rf_fail", i + 1, value)>> ELSE <<>>)
                       \o <<Diag("trace", i + 1, IF value # <<>> THEN value ELSE EMPTY_MARKER)>>,
             ok |-> ~both /\ ~not_rf]

\* the loop from index i on, leaving at the first failure
RECURSIVE FieldLoopFailFast(_, _)
FieldLoopFailFast(i, lines) ==
  IF i >= Len(schema) THEN [diags |-> <<>>, is_valid |-> TRUE]
  ELSE LET this == FieldCheck(i, lines)
       IN  IF ~this.ok THEN [diags |-> this.diags, is_valid |-> FALSE]
           ELSE LET rest == FieldLoopFailFast(i + 1, lines)
                IN  [diags |-> this.diags \o rest.diags, is_valid |-> rest.is_valid]

\* for i, (name, expected) in enumerate(schema): ..., from index i on
RECURSIVE FieldLoop(_, _)
FieldLoop(i, lines) ==
  IF i >= Len(schema) THEN [diags |-> <<>>, is_valid |-> TRUE]
  ELSE LET this == FieldCheck(i, lines)
           rest == FieldLoop(i + 1, lines)
       IN  [diags |-> this.diags \o rest.diags, is_valid |-> this.ok /\ rest.is_valid]

\* validate_qr_string(qr_string): what it returns, what it printed, and the lines
\* it worked on
validate_qr_string(qr) ==
  LET pre == PrePass(qr)
      lines == pre.lines
  IN  IF Len(lines) # EXPECTED_LINES
        THEN [called |-> TRUE, result |-> FALSE, lines |-> lines,
              diags |-> pre.diags \o <<Diag("critical_fail", Len(lines), <<>>),
                                       Diag("lines_found", 0, lines)>>]
        ELSE LET loop == FieldLoop(0, lines)
             IN  [called |-> TRUE, result |-> loop.is_valid, lines |-> lines,
                  diags |-> pre.diags \o <<Diag("count_ok", EXPECTED_LINES, <<>>)>>
                            \o loop.diags
                            \o <<Diag("complete", 0, <<>>),
                                 Diag(IF loop.is_valid THEN "passed" ELSE "failed", 0, <<>>)>>]

NoValidation == [called |-> FALSE, result |-> FALSE, lines |-> <<>>, diags |-> <<>>]

(***************************************************************************)
(* Inputs of the payload builder.                                          *)
(***************************************************************************)
RECURSIVE StringsUpTo(_, _)
StringsUpTo(alphabet, n) ==
  IF n = 0 THEN {<<>>}
  ELSE LET shorter == StringsUpTo(alphabet, n - 1)
       IN  shorter \cup {Append(s, c) : s \in shorter, c \in alphabet}

TEST_IBAN == <<"B","E","4","4","0","0","1","9","8","1","8","6","0","0","4","5">>
IVPT == <<"I","V","P","T">>
OGM_SAMPLE == <<"+","+","+","7","7","6","/","1","5","0","4","/",
                "7","3","8","7","4","+","+","+">>

IbanInputs == {<<>>, <<"B","E","4","4"," ","0","0","1","9"," ","8","1","8","6"," ",
                       "0","0","4","5">>}
BicInputs == {<<>>, <<"G","E","B","A"," ","B","E"," ","B","B">>}
NameInputs == {<<>>, <<" ">>, <<" ","N","\n">>, <<"N","\n","N">>,
               Rep("N", NAME_MAX + 1)}
AmountInputs == {0, 10005}
PurposeInputs == {<<>>, IVPT, <<"I","V","\n","P","T">>}
RefInputs == StringsUpTo({"R", "f", "-"}, MaxRefLen)
RemittanceInputs == {<<>>, <<" ">>, <<"t">>, Rep(" ", REMITTANCE_MAX) \o <<"t">>,
                     Rep("t", REMITTANCE_MAX + 1)}
InfoInputs == {<<>>, <<" ","i"," ">>}

(***************************************************************************)
(* The payload builder as a state machine: the object is constructed, its  *)
(* fields are assigned, get_qr_string is called.                           *)
(***************************************************************************)
Idle == /\ iban_out = NoVerdict
        /\ ogm_in = <<>>
        /\ ogm_out = NoOgm
        /\ qr_string = <<>>
        /\ val_out = NoValidation

InitQr ==
  /\ \E i \in IbanInputs : payment = EuQrPayment(i)
  /\ qr_out = NotCalled
  /\ Idle

Assign(field, value) ==
  /\ payment' = [payment EXCEPT ![field] = value]
  /\ qr_out' = NotCalled
  /\ qr_string' = <<>>
  /\ val_out' = NoValidation
  /\ UNCHANGED <<iban_out, ogm_in, ogm_out>>

\* set_bic(bic)
set_bic(bic) == Assign("bic", _sanitize_alphanum(bic))

\* payment.beneficiary_name = ...
SetBeneficiaryName(v) == Assign("beneficiary_name", v)

\* payment.amount = ...
SetAmount(v) == Assign("amount", v)

\* payment.purpose = ...
SetPurpose(v) == Assign("purpose", v)

\* payment.creditor_reference = ...
SetCreditorReference(v) == Assign("creditor_reference", v)

\* payment.remittance_text = ...
SetRemittanceText(v) == Assign("remittance_text", v)

\* payment.information = ...
SetInformation(v) == Assign("information", v)

\* payment.get_qr_string()
CallGetQrString ==
  /\ qr_out.status = "none"
  /\ qr_out' = get_qr_string(payment)
  /\ UNCHANGED <<payment, iban_out, ogm_in, ogm_out, qr_string, val_out>>

NextQr ==
  \/ \E v \in BicInputs : set_bic(v)
  \/ \E v \in NameInputs : SetBeneficiaryName(v)
  \/ \E v \in AmountInputs : SetAmount(v)
  \/ \E v \in PurposeInputs : SetPurpose(v)
  \/ \E v \in RefInputs : SetCreditorReference(v)
  \/ \E v \in RemittanceInputs : SetRemittanceText(v)
  \/ \E v \in InfoInputs : SetInformation(v)
  \/ CallGetQrString

SpecQr == InitQr /\ [][NextQr]_vars

(***************************************************************************)
(* validate_iban as a state machine: a payment is constructed from a raw   *)
(* IBAN, validate_iban is called on it.                                    *)
(***************************************************************************)
TEST_IBAN_PREFIX == SubSeq(TEST_IBAN, 1, 14)
GB_IBAN == <<"G","B","8","2"," ","W","E","S","T"," ","1","2","3","4"," ","5","6","9","8",
             " ","7","6","5","4"," ","3","2">>

\* the test IBAN with every pair of final digits, and other shapes
IbanCheckInputs ==
  {TEST_IBAN_PREFIX \o <<DigitSeq[a], DigitSeq[b]>> : a \in 1..10, b \in 1..10}
  \cup {<<>>, <<" ">>, <<"B","E","4","4">>, <<"B","E","7","1","0">>,
        <<"b","e","4","4"," ","0","0","1","9"," ","8","1","8","6"," ","0","0","4","5">>,
        <<"4","4","B","E","0","0","1","9","8","1","8","6","0","0","4","5">>,
        <<"B","E","X","4","0","0","1","9","8","1","8","6","0","0","4","5">>,
        GB_IBAN,
        [i \in 1..Len(GB_IBAN) |-> IF GB_IBAN[i] = "W" THEN "w" ELSE GB_IBAN[i]],
        [i \in 1..Len(GB_IBAN) |-> IF GB_IBAN[i] = "W" THEN "V" ELSE GB_IBAN[i]],
        TEST_IBAN \o Rep("0", 18), TEST_IBAN \o Rep("0", 19)}

InitIban ==
  /\ \E i \in IbanCheckInputs : payment = EuQrPayment(i)
  /\ iban_out = NoVerdict
  /\ qr_out = NotCalled
  /\ ogm_in = <<>>
  /\ ogm_out = NoOgm
  /\ qr_string = <<>>
  /\ val_out = NoValidation

\* payment.validate_iban()
CallValidateIban ==
  /\ ~iban_out.called
  /\ iban_out' = [called |-> TRUE, result |-> validate_iban(payment)]
  /\ UNCHANGED <<payment, qr_out, ogm_in, ogm_out, qr_string, val_out>>

NextIban == CallValidateIban

SpecIban == InitIban /\ [][NextIban]_vars

(***************************************************************************)
(* generate_belgian_ogm as a state machine: a base is typed (or none),     *)
(* the generator is called.                                                *)
(***************************************************************************)
\* largest of the short bases tried
MaxSmallBase == 200

TEST_BASE == <<"5","3","3","7","3","6","7","1","5","2">>

OgmInputs ==
  {DecStr(n) : n \in 0..MaxSmallBase}
  \cup {TEST_BASE \o x : x \in StringsUpTo({"0", "7"}, MaxBaseExtra)}
  \cup {<<>>, <<"a","b","c">>, <<" ">>, Rep("0", 10), Rep("9", 10), Rep("9", 12),
        <<"0","0","0","0","0","0","0","0","9","7">>,
        <<"+","+","+","5","3","3","/","7","3","6","7","/","1","5","2","6","1","+","+","+">>,
        <<"5","3","3"," ","7","3","6","7"," ","1","5","2">>,
        <<"1","2","-","3","4","x">>}

InitOgm ==
  /\ ogm_in \in OgmInputs
  /\ ogm_out = NoOgm
  /\ \E i \in {<<>>} : payment = EuQrPayment(i)
  /\ qr_out = NotCalled
  /\ iban_out = NoVerdict
  /\ qr_string = <<>>
  /\ val_out = NoValidation

\* generate_belgian_ogm(ogm_in) returning `value`
ReturnOgm(value) ==
  /\ ~ogm_out.called
  /\ value \in generate_belgian_ogm(ogm_in)
  /\ ogm_out' = [called |-> TRUE, value |-> value]
  /\ UNCHANGED <<payment, qr_out, iban_out, ogm_in, qr_string, val_out>>

\* generate_belgian_ogm(ogm_in)
CallGenerateOgm == \E value \in generate_belgian_ogm(ogm_in) : ReturnOgm(value)

NextOgm == CallGenerateOgm

SpecOgm == InitOgm /\ [][NextOgm]_vars

(***************************************************************************)
(* validate_qr_string as a state machine: a raw string is pasted, the      *)
(* validator is called on it.                                              *)
(***************************************************************************)
AMOUNT_SAMPLE == <<"E","U","R","1",".","0","0">>
BIC_SAMPLE == <<"G","E","B","A","B","E","B","B">>

\* the 12 fields of a pasted payload
PastedFields ==
  { <<f0, f1, <<"1">>, f3, BIC_SAMPLE, name, iban, AMOUNT_SAMPLE, IVPT, ref, rem, info>> :
      f0 \in {BCD, <<" ","B","C","D"," ">>, <<"B","C","X">>},
      f1 \in {V002, <<"0","0","1">>},
      f3 \in {SCT, <<"S","C","X">>},
      name \in {<<>>, <<"N">>},
      iban \in {<<" ">>, TEST_IBAN},
      ref \in {<<>>, <<" ">>, <<"R","F","1","8">>, <<"A","B">>},
      rem \in {<<>>, <<" ">>, <<"t">>, OGM_SAMPLE},
      info \in {<<>>, <<"i">>} }

\* the lines that follow the 12th
ExtraLines == StringsUpTo({<<>>, <<"x">>}, MaxExtraLines)

\* payloads cut short, complete, and with lines after the 12th
ValInputs ==
  {Join(SubSeq(f, 1, n)) : f \in PastedFields, n \in {1, 10, 11}}
  \cup {Join(f \o e) : f \in PastedFields, e \in ExtraLines}

InitVal ==
  /\ qr_string \in ValInputs
  /\ val_out = NoValidation
  /\ \E i \in {<<>>} : payment = EuQrPayment(i)
  /\ qr_out = NotCalled
  /\ iban_out = NoVerdict
  /\ ogm_in = <<>>
  /\ ogm_out = NoOgm

\* validate_qr_string(qr_string)
CallValidateQrString ==
  /\ ~val_out.called
  /\ val_out' = validate_qr_string(qr_string)
  /\ UNCHANGED <<payment, qr_out, iban_out, ogm_in, ogm_out, qr_string>>

NextVal == CallValidateQrString

SpecVal == InitVal /\ [][NextVal]_vars

(***************************************************************************)
(* The round trip: the string get_qr_string returned is handed to          *)
(* validate_qr_string.                                                     *)
(***************************************************************************)
\* validate_qr_string(payment.get_qr_string())
ValidateReturnedPayload ==
  /\ qr_out.status = "returned"
  /\ ~val_out.called
  /\ qr_string' = qr_out.payload
  /\ val_out' = validate_qr_string(qr_out.payload)
  /\ UNCHANGED <<payment, qr_out, iban_out, ogm_in, ogm_out>>

NextRoundTrip ==
  \/ NextQr
  \/ ValidateReturnedPayload

SpecRoundTrip == InitQr /\ [][NextRoundTrip]_vars

(***************************************************************************)
(* Claims about the payload builder (checked under SpecQr).                *)
(***************************************************************************)
\* the fields as get_qr_string cleans them
CleanName == _sanitize_text(payment.beneficiary_name, NAME_MAX)
CleanRef == _sanitize_alphanum(payment.creditor_reference)
CleanRemittance == _sanitize_text(payment.remittance_text, REMITTANCE_MAX)
Conflict == CleanRemittance # <<>> /\ CleanRef # <<>>
Called == qr_out.status # "none"

\* C1: with a non-empty beneficiary name and no reference/remittance conflict, the
\* string get_qr_string returns splits on "\n" into exactly 12 lines whose first
\* four are BCD, 002, 1, SCT, whatever the other fields hold.
C1_TwelveLines ==
  (qr_out.status = "returned" /\ CleanName # <<>> /\ ~Conflict) =>
    LET lines == Split(qr_out.payload)
    IN  /\ Len(lines) = 12
        /\ SubSeq(lines, 1, 4) = <<BCD, V002, <<"1">>, SCT>>

\* C2: get_qr_string raises a ValueError and returns nothing whenever the cleaned
\* remittance text and the cleaned creditor reference are both non-empty, and it
\* does not raise the cannot-set-both error when at most one of them is.
C2_MutualExclusivity ==
  Called =>
    /\ Conflict => (qr_out.status = "raised" /\ qr_out.payload = <<>>)
    /\ ~Conflict => qr_out.error # ERR_BOTH

\* C2 witness: a named payment whose two references are both set was refused with
\* the cannot-set-both error, and one whose remittance text is only blank was not.
C2_Witness ==
  /\ qr_out.status = "raised"
  /\ qr_out.error = ERR_BOTH
  /\ CleanName # <<>>
  /\ Len(payment.remittance_text) > REMITTANCE_MAX

\* C10: the error get_qr_string raises is that of the first violated rule in the
\* order name empty, both references set, reference not starting with RF, all
\* three judged on the cleaned values; with no rule violated it returns a string.
C10_FirstViolatedRule ==
  Called =>
    IF CleanName = <<>> THEN qr_out = Raised(ERR_NAME)
    ELSE IF Conflict THEN qr_out = Raised(ERR_BOTH)
    ELSE IF CleanRef # <<>> /\ ~StartsWith(CleanRef, RF) THEN qr_out = Raised(ERR_RF)
    ELSE qr_out.status = "returned"

\* C10 witness: a blank (not empty) name together with a conflicting reference that
\* does not start with RF: all three rules are violated, the name error is raised.
C10_Witness ==
  /\ Called
  /\ payment.beneficiary_name # <<>> /\ CleanName = <<>>
  /\ Conflict
  /\ ~StartsWith(CleanRef, RF)
  /\ payment.creditor_reference # CleanRef
  /\ qr_out.error = ERR_NAME

(***************************************************************************)
(* Claims about validate_iban (checked under SpecIban).                    *)
(***************************************************************************)
\* acc = (acc * 10 + digit) % 97, digit by digit from position i on
RECURSIVE Mod97From(_, _, _)
Mod97From(digits, i, acc) ==
  IF i > Len(digits) THEN acc
  ELSE Mod97From(digits, i + 1, (acc * 10 + DigitVal(digits[i])) % 97)

Mod97Check(digits) == Mod97From(digits, 1, 0)

\* A=10 .. Z=35, a digit stands for itself
LetterValue(c) == (CHOOSE k \in 1..26 : UpperSeq[k] = c) + 9

RECURSIVE DigitString(_)
DigitString(s) ==
  IF s = <<>> THEN <<>>
  ELSE (IF Head(s) \in DigitChars THEN <<Head(s)>> ELSE DecStr(LetterValue(Head(s))))
       \o DigitString(Tail(s))

\* 2 uppercase letters, 2 digits, 1 to 30 uppercase alphanumerics
WellFormedIban(s) ==
  /\ Len(s) \in 5..34
  /\ {s[1], s[2]} \subseteq UpperLetters
  /\ {s[3], s[4]} \subseteq DigitChars
  /\ {s[i] : i \in 5..Len(s)} \subseteq UpperLetters \cup DigitChars

TEST_IBAN_46 == TEST_IBAN_PREFIX \o <<"4","6">>

\* C3: validate_iban returns true exactly when the stored IBAN is non-empty, is
\* well formed, and its digit string (first 4 characters moved to the end, letters
\* replaced by 10..35) leaves remainder 1 modulo 97 under digit-by-digit reduction;
\* BE44001981860045 is accepted and BE44001981860046 is rejected.
C3_IbanChecksum ==
  iban_out.called =>
    /\ iban_out.result =
         ( /\ payment.iban # <<>>
           /\ WellFormedIban(payment.iban)
           /\ Mod97Check(DigitString(SubSeq(payment.iban, 5, Len(payment.iban))
                                     \o SubSeq(payment.iban, 1, 4))) = 1 )
    /\ payment.iban = TEST_IBAN => iban_out.result
    /\ payment.iban = TEST_IBAN_46 => ~iban_out.result

\* C3 witness: the valid test IBAN has been checked and accepted.
C3_Witness == iban_out.called /\ payment.iban = TEST_IBAN /\ iban_out.result

(***************************************************************************)
(* Claims about generate_belgian_ogm (checked under SpecOgm).              *)
(***************************************************************************)
\* the 12 digits of a string shaped +++DDD/DDDD/DDDDD+++
OgmDigits(v) == SubSeq(v, 4, 6) \o SubSeq(v, 8, 11) \o SubSeq(v, 13, 17)

OgmShaped(v) ==
  /\ Len(v) = 20
  /\ \A i \in {1, 2, 3, 18, 19, 20} : v[i] = "+"
  /\ \A i \in {7, 12} : v[i] = "/"
  /\ \A i \in (4..6) \cup (8..11) \cup (13..17) : v[i] \in DigitChars

\* C4: for every base the generator returns +++DDD/DDDD/DDDDD+++ whose last 2
\* digits are the first 10 digits modulo 97, with 97 in place of 0 (so never 00);
\* base 5337367152 gives +++533/7367/15261+++.
C4_OgmCheckDigits ==
  ogm_out.called =>
    /\ OgmShaped(ogm_out.value)
    /\ LET d == OgmDigits(ogm_out.value)
           r == Mod97Check(SubSeq(d, 1, 10))
           check == 10 * DigitVal(d[11]) + DigitVal(d[12])
       IN  /\ check = (IF r = 0 THEN 97 ELSE r)
           /\ check # 0
    /\ ogm_in = TEST_BASE =>
         ogm_out.value = <<"+","+","+","5","3","3","/","7","3","6","7","/",
                           "1","5","2","6","1","+","+","+">>

\* C4 witness: a base with fewer than 10 digits that is a multiple of 97 was padded
\* and given the check digits 97.
C4_Witness ==
  /\ ogm_out.called
  /\ ogm_in = <<"9","7">>
  /\ ogm_out.value = <<"+","+","+","0","0","0","/","0","0","0","0","/",
                       "0","9","7","9","7","+","+","+">>

\* 10-digit bases, zero-padded, from both sides of 10^9
TenDigitSamples == {ZFill(n, 10) : n \in {m \in IntSamples : Len(m) <= 10}}

\* C8 as stated: called with no base, the generator can use every 10-digit base
\* from 0000000000 to 9999999999.
C8_EveryBasePossible ==
  (ogm_in = <<>> /\ ~ogm_out.called) =>
    \A d \in TenDigitSamples : ENABLED ReturnOgm(FormatOgm(d))

\* C8 amended: called with no base, the generator can use exactly the 10-digit
\* bases from 1000000000 to 9999999999: the first digit of the base is never 0.
C8_BaseFromTenDigitNumbers ==
  /\ (ogm_in = <<>> /\ ~ogm_out.called) =>
       \A d \in TenDigitSamples : (ENABLED ReturnOgm(FormatOgm(d))) <=> d[1] # "0"
  /\ (ogm_in = <<>> /\ ogm_out.called) =>
       /\ OgmShaped(ogm_out.value)
       /\ ogm_out.value[4] # "0"

\* C8 witness: called with no base, the generator used the smallest base it can
\* draw, 1000000000.
C8_Witness ==
  /\ ogm_in = <<>>
  /\ ogm_out.called
  /\ SubSeq(OgmDigits(ogm_out.value), 1, 10) = <<"1","0","0","0","0","0","0","0","0","0">>

(***************************************************************************)
(* Claims about validate_qr_string (checked under SpecVal).                *)
(***************************************************************************)
Pasted == Split(qr_string)

DiagsOf(kinds) == {j \in 1..Len(val_out.diags) : val_out.diags[j].kind \in kinds}
DiagsAt(kinds, line) == {j \in DiagsOf(kinds) : val_out.diags[j].line = line}

GatePassed == val_out.called /\ DiagsOf({"count_ok"}) # {}

\* the checks of one line (1-based) of 12, on the trimmed values
HeaderLiterals == <<BCD, V002, <<"1">>, SCT>>
HeaderMismatch(l, i) == i <= 4 /\ Strip(l[i]) # HeaderLiterals[i]
MandatoryEmpty(l, i) == i \in {6, 7} /\ Strip(l[i]) = <<>>
ReferenceFails(l, i) ==
  /\ i = 10
  /\ Strip(l[10]) # <<>>
  /\ ~(StartsWith(Strip(l[10]), RF) /\ Strip(l[11]) = <<>>)
LineFails(l, i) == HeaderMismatch(l, i) \/ MandatoryEmpty(l, i) \/ ReferenceFails(l, i)

\* C5: a raw string of exactly 11 lines gets one empty line appended, with a
\* diagnostic noting it, the field checks run on the 12 lines, and the result is
\* valid when the 11 supplied fields pass their checks.
C5_ElevenLinesCorrected ==
  (val_out.called /\ Len(Pasted) = 11) =>
    /\ val_out.lines = Append(Pasted, <<>>)
    /\ DiagsOf({"warning"}) # {}
    /\ GatePassed
    /\ val_out.result <=> \A i \in 1..11 : ~LineFails(Append(Pasted, <<>>), i)

\* C5 witness: the 11-line sample of validation.py's main block, ending with the
\* OGM in the remittance line, was corrected and found valid.
C5_Witness ==
  /\ val_out.called
  /\ Len(Pasted) = 11
  /\ Pasted[11] = OGM_SAMPLE
  /\ val_out.result
  /\ DiagsOf({"ogm_info"}) # {}

\* C6 as stated: past the line-count gate, each of the 12 lines gets a trace line
\* showing its value, failed or not: exactly 12 trace lines.
C6_TwelveTraceLines ==
  GatePassed =>
    /\ Cardinality(DiagsOf({"trace"})) = 12
    /\ \A i \in 1..12 : Cardinality(DiagsAt({"trace"}, i)) = 1

\* C6 amended: past the line-count gate, a line gets its trace line (showing the
\* trimmed value, or the empty marker) exactly when it did not fail the literal
\* check of lines 1-4 or the mandatory check of Beneficiary Name and IBAN; a
\* Creditor Reference that fails its checks still gets one.
C6_TraceUnlessHeaderOrMandatoryFails ==
  GatePassed =>
    \A i \in 1..12 :
      IF HeaderMismatch(val_out.lines, i) \/ MandatoryEmpty(val_out.lines, i)
        THEN DiagsAt({"trace"}, i) = {}
        ELSE /\ Cardinality(DiagsAt({"trace"}, i)) = 1
             /\ \A j \in DiagsAt({"trace"}, i) :
                  val_out.diags[j].value =
                    (IF Strip(val_out.lines[i]) = <<>> THEN EMPTY_MARKER
                     ELSE Strip(val_out.lines[i]))

\* C6 witness: a run past the gate in which the service tag failed (no trace line
\* for line 1) and the creditor reference failed (trace line for line 10 all the
\* same).
C6_Witness ==
  /\ GatePassed
  /\ DiagsAt({"header_fail"}, 1) # {}
  /\ DiagsAt({"trace"}, 1) = {}
  /\ DiagsAt({"rf_fail"}, 10) # {}
  /\ DiagsAt({"trace"}, 10) # {}
  /\ DiagsAt({"trace"}, 12) # {}

\* C7: past the line-count gate all 12 lines are checked; the result is valid
\* exactly when no line failed (lines 1-4 equal BCD/002/1/SCT, name and IBAN
\* non-empty, creditor reference empty or starting with RF with the remittance
\* text empty, all trimmed); every failing line has its failure diagnostic,
\* whatever failed before it.
C7_AccumulatesFailures ==
  GatePassed =>
    /\ val_out.result <=> \A i \in 1..12 : ~LineFails(val_out.lines, i)
    /\ \A i \in 1..12 : LineFails(val_out.lines, i) <=> DiagsAt(FailKinds, i) # {}
    /\ \A i \in 1..12 : DiagsAt(FailKinds \cup {"trace"}, i) # {}
    /\ val_out.result <=> DiagsOf(FailKinds) = {}

\* C7 witness: one run recorded a failure on the service tag, on the beneficiary
\* name and on the creditor reference.
C7_Witness ==
  /\ GatePassed
  /\ DiagsAt({"header_fail"}, 1) # {}
  /\ DiagsAt({"mandatory_fail"}, 6) # {}
  /\ DiagsAt({"logic_fail"}, 10) # {}
  /\ DiagsAt({"rf_fail"}, 10) # {}
  /\ ~val_out.result

\* the split has 11 or 12 lines, or more with every line after the 12th empty
Admissible ==
  \/ Len(Pasted) \in {11, 12}
  \/ Len(Pasted) > 12 /\ \A k \in 13..Len(Pasted) : Pasted[k] = <<>>

\* the lines left once trailing empty lines beyond the 12th are dropped
RemainingCount ==
  IF Len(Pasted) <= 12 THEN Len(Pasted)
  ELSE LET filled == {k \in 13..Len(Pasted) : Pasted[k] # <<>>}
       IN  IF filled = {} THEN 12 ELSE CHOOSE k \in filled : \A j \in filled : j <= k

FieldKinds == FailKinds \cup {"trace", "ogm_info"}

\* C9: the field checks run exactly when the split has 11 lines, 12 lines, or more
\* than 12 with every line after the 12th empty; otherwise the result is invalid,
\* a diagnostic reports the count of lines left and no field is checked.
C9_LineCountGate ==
  val_out.called =>
    IF Admissible
      THEN /\ GatePassed
           /\ DiagsOf({"critical_fail"}) = {}
           /\ \A i \in 1..12 : DiagsAt(FieldKinds, i) # {}
      ELSE /\ ~val_out.result
           /\ ~GatePassed
           /\ DiagsAt({"critical_fail"}, RemainingCount) # {}
           /\ DiagsOf(FieldKinds) = {}

\* C9 witness: 14 lines, the 13th filled and the 14th empty: the empty one was
\* dropped and the run ended at the gate reporting 13 lines.
C9_Witness ==
  /\ val_out.called
  /\ Len(Pasted) = 14
  /\ Pasted[13] # <<>>
  /\ Pasted[14] = <<>>
  /\ DiagsAt({"critical_fail"}, 13) # {}
  /\ ~val_out.result

(***************************************************************************)
(* Claims about the round trip (checked under SpecRoundTrip).              *)
(***************************************************************************)
HasLineBreak(s) == \E i \in 1..Len(s) : s[i] = "\n"

\* the payment keeps the version and character set of its construction
DefaultHeader == payment.version = V002 /\ payment.char_set = <<"1">>

\* no line break in any free-text value as it is written to the payload
NoLineBreakWritten ==
  /\ ~HasLineBreak(payment.currency)
  /\ ~HasLineBreak(payment.purpose)
  /\ ~HasLineBreak(CleanName)
  /\ ~HasLineBreak(CleanRemittance)
  /\ ~HasLineBreak(_sanitize_text(payment.information, INFO_MAX))

\* C11: whenever get_qr_string returns a string for a payment with the default
\* version and character set, a non-empty cleaned IBAN and no line break in
\* currency, purpose, name, remittance text and information text,
\* validate_qr_string finds that string valid.
C11_RoundTrip ==
  ( /\ val_out.called
    /\ qr_out.status = "returned"
    /\ qr_string = qr_out.payload
    /\ DefaultHeader
    /\ _sanitize_alphanum(payment.iban) # <<>>
    /\ NoLineBreakWritten ) =>
      /\ val_out.result
      /\ Len(val_out.lines) = 12
      /\ DiagsOf(FailKinds \cup {"critical_fail"}) = {}

\* C11 witness: a payment with an amount, information text and a creditor reference
\* typed as "Rf" was serialized and its payload was found valid.
C11_Witness ==
  /\ val_out.called
  /\ qr_out.status = "returned"
  /\ qr_string = qr_out.payload
  /\ payment.iban = TEST_IBAN
  /\ payment.amount > 0
  /\ payment.creditor_reference = <<"R","f">>
  /\ payment.information # <<>>
  /\ NoLineBreakWritten
  /\ val_out.result

====
